---- MODULE Spec2Model ----
(***************************************************************************)
(* Model of Renumics/rag-demo:                                             *)
(*   assistant/__init__.py      stable_hash, get_retriever, format_docs,   *)
(*                              get_rag_chain                              *)
(*   assistant/cli/create_db.py create_db (incremental indexer)            *)
(*                                                                         *)
(* Python values are modelled as follows.  A dict (insertion ordered) is a *)
(* sequence of <<key, value>> pairs with distinct keys.  An Optional is    *)
(* <<>> (None) or <<v>>.  A document's page_content is a sequence of text  *)
(* segments; the text splitter cuts it at the segment boundaries.  Source  *)
(* paths, titles and text segments are small naturals.                     *)
(***************************************************************************)
EXTENDS Integers, Sequences, FiniteSets, TLC

\* ------------------------------------------------------------------ bounds
NumSources == 2
MaxLen == 2
MaxText == 0
NumQuestions == 2
MaxNum == 1
MaxRetrieved == 3

Sources == 1..NumSources
Segments == 0..MaxText
\* the text of a file: up to MaxLen segments of one revision of its content
Texts == UNION {[1..n -> {x}] : n \in 0..MaxLen, x \in Segments}
\* the <title> of the file at path s
Title(s) == s

\* ------------------------------------------------------- sequence helpers
Range(seq) == {seq[i] : i \in 1..Len(seq)}

RemoveAt(seq, i) == SubSeq(seq, 1, i - 1) \o SubSeq(seq, i + 1, Len(seq))

Max(S) == CHOOSE m \in S : \A x \in S : x <= m

\* Python sorted() over a set of naturals.
RECURSIVE sorted(_)
sorted(S) ==
    IF S = {} THEN <<>>
    ELSE LET m == CHOOSE m \in S : \A x \in S : m <= x
         IN <<m>> \o sorted(S \ {m})

\* dict[key]
DictGet(d, key) ==
    LET i == CHOOSE i \in 1..Len(d) : d[i][1] = key IN d[i][2]

\* dict equality: equal as sets of key-value pairs, whatever the insertion order
DictEq(d1, d2) == Range(d1) = Range(d2)

\* ---------------------------------------------------------- stable_hash
\* Python's ordering of the metadata key strings.
KeyRank(key) ==
    CASE key = "source" -> 1
      [] key = "start_index" -> 2
      [] key = "title" -> 3

RECURSIVE SortItems(_)
SortItems(items) ==
    IF items = <<>> THEN <<>>
    ELSE LET i == CHOOSE i \in 1..Len(items) :
                    \A j \in 1..Len(items) :
                        KeyRank(items[i][1]) <= KeyRank(items[j][1])
         IN <<items[i]>> \o SortItems(RemoveAt(items, i))

\* json.dumps(obj, sort_keys=...): the items in serialization order
json_dumps(obj, sort_keys) == IF sort_keys THEN SortItems(obj) ELSE obj

\* sha1(...).hexdigest(), taken to be collision free: a positional encoding
\* of the serialized items.
MaxValue == Max({NumSources, MaxLen})
DigestBase == 3 * (MaxValue + 1) + 1
ItemCode(item) == (KeyRank(item[1]) - 1) * (MaxValue + 1) + item[2] + 1

RECURSIVE sha1_hexdigest(_)
sha1_hexdigest(data) ==
    IF data = <<>> THEN 0
    ELSE sha1_hexdigest(SubSeq(data, 1, Len(data) - 1)) * DigestBase
         + ItemCode(data[Len(data)])

stable_hash_parent(doc) ==
    sha1_hexdigest(json_dumps(SelectSeq(doc.metadata, LAMBDA item : item[1] # "start_index"),
                              TRUE))

stable_hash_unsorted(doc) == sha1_hexdigest(json_dumps(doc.metadata, FALSE))

stable_hash(doc) == sha1_hexdigest(json_dumps(doc.metadata, TRUE))

\* ------------------------------------------------------------- variables
VARIABLES
    \* persisted state
    docs_db_directory_exists,   \* settings.docs_db_directory.exists()
    collection_exists,          \* settings.docs_db_collection in collection_names
    index,                      \* entries of the Chroma collection
    \* the last create_db call: arguments, intermediate values, result
    exist_ok,
    on_match,
    docs_directory,             \* the documents under docs_directory
    loaded,                     \* loader.load() was called
    docs,                       \* docs after the on_match filter
    splits,                     \* chunks handed to add_documents
    deleted_ids,                \* ids handed to delete
    outcome,                    \* "none", "ok", "CollectionExists", "AlreadyIndexed"
    error_sources,              \* sources listed in the error message
    pre_index,                  \* index when the call started
    pre_collection_exists,      \* collection existed when the call started
    last_indexed,               \* per source: chunk metadata last upserted

    \* stable_hash applied to two chunks
    h_doc1, h_doc2, h_done, h_id1, h_id2,
    \* a get_retriever call: arguments, result, what reached the vector store
    r_k, r_search_type, r_score_threshold, r_fetch_k, r_lambda_mult,
    r_outcome, r_as_retriever_calls, r_kwargs_search_type, r_search_kwargs,
    \* an invocation of the RAG chain
    q_question, q_invoked, q_retrieved, q_retriever_calls, q_prompt, q_result

indexer_vars == <<docs_db_directory_exists, collection_exists, index, exist_ok,
                  on_match, docs_directory, loaded, docs, splits, deleted_ids,
                  outcome, error_sources, pre_index, pre_collection_exists,
                  last_indexed>>
hash_vars == <<h_doc1, h_doc2, h_done, h_id1, h_id2>>
retriever_vars == <<r_k, r_search_type, r_score_threshold, r_fetch_k, r_lambda_mult,
                    r_outcome, r_as_retriever_calls, r_kwargs_search_type,
                    r_search_kwargs>>
chain_vars == <<q_question, q_invoked, q_retrieved, q_retriever_calls, q_prompt,
                q_result>>
vars == <<indexer_vars, hash_vars, retriever_vars, chain_vars>>

\* ------------------------------------------------------ document loading
\* BSHTMLLoader: one Document per file, metadata {"source": ..., "title": ...}
FileDocs(s) ==
    {[page_content |-> txt, metadata |-> <<<<"source", s>>, <<"title", Title(s)>>>>] :
        txt \in Texts}

\* DirectoryLoader.load(): one document per file, files have distinct paths
RECURSIVE DirsUpTo(_)
DirsUpTo(n) ==
    IF n = 0 THEN {<<>>}
    ELSE LET prev == DirsUpTo(n - 1)
         IN prev \cup {Append(d, f) : d \in prev, f \in FileDocs(n)}

Directories == DirsUpTo(NumSources)

Source(doc) == DictGet(doc.metadata, "source")

DocSources(ds) == {Source(ds[i]) : i \in 1..Len(ds)}

\* RecursiveCharacterTextSplitter(add_start_index=True): every chunk copies
\* the parent's metadata and adds start_index
SplitDocument(doc) ==
    [i \in 1..Len(doc.page_content) |->
        [page_content |-> <<doc.page_content[i]>>,
         metadata |-> Append(doc.metadata, <<"start_index", i - 1>>)]]

RECURSIVE split_documents(_)
split_documents(ds) ==
    IF ds = <<>> THEN <<>>
    ELSE SplitDocument(Head(ds)) \o split_documents(Tail(ds))

\* -------------------------------------------------------- Chroma collection
Entry(id, doc) == [id |-> id, page_content |-> doc.page_content, metadata |-> doc.metadata]

EntrySource(e) == DictGet(e.metadata, "source")

\* docs_vectorstore.get(include=["metadatas"])["metadatas"] -> the sources
IndexedSources(idx) == {EntrySource(e) : e \in idx}

\* add_documents(splits, ids=split_ids): upsert by id, in order
RECURSIVE add_documents(_, _, _)
add_documents(idx, chunks, ids) ==
    IF chunks = <<>> THEN idx
    ELSE add_documents({e \in idx : e.id # Head(ids)} \cup {Entry(Head(ids), Head(chunks))},
                       Tail(chunks), Tail(ids))

\* delete(ids)
delete(idx, ids) == {e \in idx : e.id \notin ids}

\* ------------------------------------------------------------- create_db
\* "if not exist_ok and settings.docs_db_directory.exists()" and the collection
\* is among the client's collections
CollectionGateAlways(p_exist_ok, dir_exists, coll_exists) == dir_exists /\ coll_exists

CollectionGate(p_exist_ok, dir_exists, coll_exists) ==
    ~p_exist_ok /\ dir_exists /\ coll_exists

\* ids to delete under REPLACE: entries whose source is the source of a loaded doc
ReplaceIdsNone(idx, ds) == {}

ReplaceIdsAll(idx, ds) == IF ds = <<>> THEN {} ELSE {e.id : e \in idx}

ReplaceIds(idx, ds) == {e.id : e \in {x \in idx : EntrySource(x) \in DocSources(ds)}}

\* docs kept under IGNORE
IgnoreFilterKeepAll(ds, indexed_doc_filepaths) == ds

IgnoreFilter(ds, indexed_doc_filepaths) ==
    LET Keep(doc) == Source(doc) \notin Range(indexed_doc_filepaths)
    IN SelectSeq(ds, Keep)

\* sources of the loaded docs that are indexed already (FAIL branch)
DocFilepathsMatchIfAll(ds, indexed_doc_filepaths) ==
    IF DocSources(ds) \subseteq Range(indexed_doc_filepaths) THEN DocSources(ds) ELSE {}

DocFilepathsMatchLoaded(ds, indexed_doc_filepaths) ==
    IF DocSources(ds) \cap Range(indexed_doc_filepaths) = {} THEN {} ELSE DocSources(ds)

DocFilepathsMatch(ds, indexed_doc_filepaths) ==
    DocSources(ds) \cap Range(indexed_doc_filepaths)

\* chunk metadata (as key-value sets) upserted for source s
UpsertedFor(chunks, s) ==
    {Range(chunks[i].metadata) : i \in {j \in 1..Len(chunks) : Source(chunks[j]) = s}}

CreateDb(p_exist_ok, p_on_match, p_dir) ==
    /\ exist_ok' = p_exist_ok
    /\ on_match' = p_on_match
    /\ docs_directory' = p_dir
    /\ pre_index' = index
    /\ pre_collection_exists' = collection_exists
    /\ UNCHANGED <<hash_vars, retriever_vars, chain_vars>>
    /\ IF CollectionGate(p_exist_ok, docs_db_directory_exists, collection_exists)
       THEN \* RuntimeError: the collection already exists
            /\ outcome' = "CollectionExists"
            /\ loaded' = FALSE
            /\ docs' = <<>>
            /\ splits' = <<>>
            /\ deleted_ids' = {}
            /\ error_sources' = <<>>
            /\ UNCHANGED <<docs_db_directory_exists, collection_exists, index,
                           last_indexed>>
       ELSE LET indexed_doc_filepaths == sorted(IndexedSources(index))
                match == DocFilepathsMatch(p_dir, indexed_doc_filepaths)
                raise == p_on_match = "fail" /\ match # {}
                kept == IF p_on_match = "ignore"
                        THEN IgnoreFilter(p_dir, indexed_doc_filepaths)
                        ELSE p_dir
                ids == IF p_on_match = "replace" THEN ReplaceIds(index, p_dir) ELSE {}
                after_delete == delete(index, ids)
                chunks == split_documents(kept)
                split_ids == [i \in 1..Len(chunks) |-> stable_hash(chunks[i])]
            IN  \* get_chromadb creates the directory and the collection
                /\ docs_db_directory_exists' = TRUE
                /\ collection_exists' = TRUE
                /\ loaded' = TRUE
                /\ deleted_ids' = ids
                /\ IF raise
                   THEN \* RuntimeError: some documents are indexed already
                        /\ outcome' = "AlreadyIndexed"
                        /\ error_sources' = sorted(match)
                        /\ docs' = p_dir
                        /\ splits' = <<>>
                        /\ UNCHANGED <<index, last_indexed>>
                   ELSE /\ outcome' = "ok"
                        /\ error_sources' = <<>>
                        /\ docs' = kept
                        /\ IF kept # <<>>
                           THEN /\ splits' = chunks
                                /\ index' = add_documents(after_delete, chunks, split_ids)
                                /\ last_indexed' =
                                     [s \in Sources |->
                                        IF s \in DocSources(kept)
                                        THEN UpsertedFor(chunks, s)
                                        ELSE last_indexed[s]]
                           ELSE /\ splits' = <<>>
                                /\ index' = after_delete
                                /\ UNCHANGED last_indexed

\* the process ends: what remains is the vector store on disk
ProcessExit ==
    /\ outcome # "none"
    /\ exist_ok' = FALSE
    /\ on_match' = "fail"
    /\ docs_directory' = <<>>
    /\ loaded' = FALSE
    /\ docs' = <<>>
    /\ splits' = <<>>
    /\ deleted_ids' = {}
    /\ outcome' = "none"
    /\ error_sources' = <<>>
    /\ pre_index' = {}
    /\ pre_collection_exists' = FALSE
    /\ UNCHANGED <<docs_db_directory_exists, collection_exists, index, last_indexed,
                   hash_vars, retriever_vars, chain_vars>>

OnMatchAction == {"ignore", "replace", "fail"}

IndexerIdle ==
    /\ collection_exists = FALSE
    /\ index = {}
    /\ exist_ok = FALSE
    /\ on_match = "fail"
    /\ docs_directory = <<>>
    /\ loaded = FALSE
    /\ docs = <<>>
    /\ splits = <<>>
    /\ deleted_ids = {}
    /\ outcome = "none"
    /\ error_sources = <<>>
    /\ pre_index = {}
    /\ pre_collection_exists = FALSE
    /\ last_indexed = [s \in Sources |-> {}]

IndexerInit ==
    /\ docs_db_directory_exists \in BOOLEAN
    /\ IndexerIdle

\* ------------------------------------------------ stable_hash on two chunks
KeyOrders(n) == {p \in [1..n -> 1..n] : \A i, j \in 1..n : i # j => p[i] # p[j]}

\* chunks as the splitter builds them, their metadata dicts filled in any order
HashDocs ==
    {[page_content |-> txt,
      metadata |-> [i \in 1..3 |->
                       <<<<"source", s>>, <<"title", t>>, <<"start_index", k>>>>[p[i]]]] :
        txt \in Texts \ {<<>>}, s \in Sources, t \in Sources, k \in 0..(MaxLen - 1),
        p \in KeyOrders(3)}

HashIdle ==
    /\ h_doc1 = [page_content |-> <<>>, metadata |-> <<>>]
    /\ h_doc2 = [page_content |-> <<>>, metadata |-> <<>>]
    /\ h_done = FALSE
    /\ h_id1 = 0
    /\ h_id2 = 0

HashInputs ==
    /\ h_doc1 \in HashDocs
    /\ h_doc2 \in HashDocs
    /\ h_done = FALSE
    /\ h_id1 = 0
    /\ h_id2 = 0

StableHash ==
    /\ ~h_done
    /\ h_done' = TRUE
    /\ h_id1' = stable_hash(h_doc1)
    /\ h_id2' = stable_hash(h_doc2)
    /\ UNCHANGED <<h_doc1, h_doc2, indexer_vars, retriever_vars, chain_vars>>

\* ----------------------------------------------------------- get_retriever
Nums == 0..MaxNum
Optional(S) == {<<>>} \cup {<<v>> : v \in S}
RetrieverSearchType == {"similarity", "similarity_score_threshold", "mmr"}

\* "assert score_threshold is not None" raises
AssertNeverFails(search_type, score_threshold) == FALSE

AssertFails(search_type, score_threshold) ==
    search_type = "similarity_score_threshold" /\ score_threshold = <<>>

\* search_kwargs as built by get_retriever; values are kept as Optionals
SearchKwargs(k, search_type, score_threshold, fetch_k, lambda_mult) ==
    (IF k # <<>> THEN <<<<"k", k>>>> ELSE <<>>)
    \o (IF search_type = "similarity_score_threshold"
        THEN <<<<"score_threshold", score_threshold>>>>
        ELSE IF search_type = "mmr"
        THEN (IF fetch_k # <<>> THEN <<<<"fetch_k", fetch_k>>>> ELSE <<>>)
             \o (IF lambda_mult # <<>> THEN <<<<"lambda_mult", lambda_mult>>>> ELSE <<>>)
        ELSE <<>>)

RetrieverIdle ==
    /\ r_k = <<>>
    /\ r_search_type = "similarity"
    /\ r_score_threshold = <<>>
    /\ r_fetch_k = <<>>
    /\ r_lambda_mult = <<>>
    /\ r_outcome = "none"
    /\ r_as_retriever_calls = 0
    /\ r_kwargs_search_type = "none"
    /\ r_search_kwargs = <<>>

RetrieverInputs ==
    /\ r_k \in Optional(Nums)
    /\ r_search_type \in RetrieverSearchType
    /\ r_score_threshold \in Optional(Nums)
    /\ r_fetch_k \in Optional(Nums)
    /\ r_lambda_mult \in Optional(Nums)
    /\ r_outcome = "none"
    /\ r_as_retriever_calls = 0
    /\ r_kwargs_search_type = "none"
    /\ r_search_kwargs = <<>>

GetRetriever ==
    /\ r_outcome = "none"
    /\ IF AssertFails(r_search_type, r_score_threshold)
       THEN /\ r_outcome' = "AssertionError"
            /\ UNCHANGED <<r_as_retriever_calls, r_kwargs_search_type, r_search_kwargs>>
       ELSE \* vectorstore.as_retriever(**kwargs)
            /\ r_outcome' = "ok"
            /\ r_as_retriever_calls' = r_as_retriever_calls + 1
            /\ r_kwargs_search_type' = r_search_type
            /\ r_search_kwargs' = SearchKwargs(r_k, r_search_type, r_score_threshold,
                                               r_fetch_k, r_lambda_mult)
    /\ UNCHANGED <<r_k, r_search_type, r_score_threshold, r_fetch_k, r_lambda_mult,
                   indexer_vars, hash_vars, chain_vars>>

\* ----------------------------------------------- format_docs, get_rag_chain
\* Text is a sequence of tokens <<literal, value>>.
RECURSIVE Join(_, _)
Join(sep, parts) ==
    IF parts = <<>> THEN <<>>
    ELSE IF Len(parts) = 1 THEN parts[1]
    ELSE parts[1] \o <<sep>> \o Join(sep, Tail(parts))

format_doc(doc) ==
    <<<<"Content: ", doc.page_content>>, <<"\nSource: ", <<DictGet(doc.metadata, "source")>>>>>>

format_docs(ds) ==
    Join(<<"\n\n", <<>>>>, [i \in 1..Len(ds) |-> format_doc(ds[i])])

\* ChatPromptTemplate.from_template(template) filled with x
Prompt(x) ==
    <<<<"QUESTION: ", <<x.question>>>>, <<"\n=========\n", <<>>>>>>
    \o x.source_documents
    \o <<<<"\n=========\n", <<>>>>, <<"FINAL ANSWER: ", <<>>>>>>

\* RunnablePassthrough.assign(source_documents=format_docs(...)) | prompt
rag_chain_from_docs_prompt(x) ==
    Prompt([x EXCEPT !.source_documents = format_docs(x.source_documents)])

\* RunnableParallel{source_documents, question}.assign(answer=...)
ChainOutputCited(x, answer) ==
    [source_documents |->
         SelectSeq(x.source_documents, LAMBDA d : Source(d) \in answer),
     question |-> x.question, answer |-> answer]

ChainOutput(x, answer) ==
    [source_documents |-> x.source_documents, question |-> x.question, answer |-> answer]

\* what the retriever can return: chunks of the index, in any order
ChainDocs ==
    {[page_content |-> <<x>>,
      metadata |-> <<<<"source", s>>, <<"title", Title(s)>>, <<"start_index", 0>>>>] :
        x \in Segments, s \in Sources}

Retrievals == UNION {[1..n -> ChainDocs] : n \in 0..MaxRetrieved}

\* what the chat model can answer: the sources its text names
Answers == SUBSET Sources

ChainIdle ==
    /\ q_question = 0
    /\ q_invoked = FALSE
    /\ q_retrieved = <<>>
    /\ q_retriever_calls = 0
    /\ q_prompt = <<>>
    /\ q_result = [source_documents |-> <<>>, question |-> 0, answer |-> {}]

ChainInputs ==
    /\ q_question \in 1..NumQuestions
    /\ q_invoked = FALSE
    /\ q_retrieved = <<>>
    /\ q_retriever_calls = 0
    /\ q_prompt = <<>>
    /\ q_result = [source_documents |-> <<>>, question |-> 0, answer |-> {}]

Invoke ==
    /\ ~q_invoked
    /\ \E retrieved \in Retrievals, answer \in Answers :
          LET x == [source_documents |-> retrieved, question |-> q_question]
          IN /\ q_retrieved' = retrieved
             /\ q_retriever_calls' = q_retriever_calls + 1
             /\ q_prompt' = rag_chain_from_docs_prompt(x)
             /\ q_result' = ChainOutput(x, answer)
    /\ q_invoked' = TRUE
    /\ UNCHANGED <<q_question, indexer_vars, hash_vars, retriever_vars>>

\* --------------------------------------------------------- specifications
Init == IndexerInit /\ HashIdle /\ RetrieverIdle /\ ChainIdle

\* the command is run on a directory of documents
Run ==
    /\ outcome = "none"
    /\ \E p_exist_ok \in BOOLEAN, p_on_match \in OnMatchAction, p_dir \in Directories :
          CreateDb(p_exist_ok, p_on_match, p_dir)

\* the same command is run again on the documents the last run found
Rerun ==
    /\ outcome # "none"
    /\ \E p_exist_ok \in BOOLEAN : CreateDb(p_exist_ok, on_match, docs_directory)

Next == Run \/ Rerun \/ ProcessExit

Spec == Init /\ [][Next]_vars

InitHash ==
    docs_db_directory_exists = FALSE /\ IndexerIdle /\ HashInputs /\ RetrieverIdle /\ ChainIdle

NextHash == StableHash

SpecHash == InitHash /\ [][NextHash]_vars

InitRetriever ==
    docs_db_directory_exists = FALSE /\ IndexerIdle /\ HashIdle /\ RetrieverInputs /\ ChainIdle

NextRetriever == GetRetriever

SpecRetriever == InitRetriever /\ [][NextRetriever]_vars

InitChain ==
    docs_db_directory_exists = FALSE /\ IndexerIdle /\ HashIdle /\ RetrieverIdle /\ ChainInputs

NextChain == Invoke

SpecChain == InitChain /\ [][NextChain]_vars

\* ------------------------------------------------------------------ claims
Returned == outcome # "none"

Ids(idx) == {e.id : e \in idx}

EntriesOf(idx, s) == {e \in idx : EntrySource(e) = s}

\* sources of the loaded documents that were indexed when the call started
Collisions == DocSources(docs_directory) \cap IndexedSources(pre_index)

\* the identities of the chunks the document doc is split into
ChunkIds(doc) == {stable_hash(c) : c \in Range(SplitDocument(doc))}

\* the index that one run on ds builds from an empty collection
IndexedOnce(ds) ==
    LET chunks == split_documents(ds)
    IN add_documents({}, chunks, [i \in 1..Len(chunks) |-> stable_hash(chunks[i])])

\* C1: under on_match = FAIL, once past the collection gate, a batch with at
\* least one already indexed source makes the call raise and leaves the index
\* as it was: nothing is deleted and nothing is upserted, also not the
\* documents of the batch that were not indexed yet.
C1_FailAtomic ==
    (Returned /\ on_match = "fail" /\ outcome # "CollectionExists" /\ Collisions # {})
        => /\ outcome = "AlreadyIndexed"
           /\ index = pre_index
           /\ deleted_ids = {}
           /\ splits = <<>>

C1_Witness ==
    /\ on_match = "fail"
    /\ outcome = "AlreadyIndexed"
    /\ \E i \in 1..Len(docs_directory) :
          /\ Source(docs_directory[i]) \notin IndexedSources(pre_index)
          /\ docs_directory[i].page_content # <<>>
    /\ Cardinality(pre_index) >= 2

\* C2: a run with on_match = IGNORE followed by a run with IGNORE and exist_ok
\* on the same documents leaves the index as the first run left it (same ids,
\* same count): the second run drops every document whose source is indexed,
\* produces no chunk, upserts nothing and deletes nothing.
C2_IgnoreIdempotent ==
    [][(/\ on_match = "ignore" /\ outcome = "ok"
        /\ on_match' = "ignore" /\ exist_ok' /\ outcome' # "none"
        /\ docs_directory' = docs_directory)
       => /\ outcome' = "ok"
          /\ index' = index
          /\ Ids(index') = Ids(index)
          /\ Cardinality(index') = Cardinality(index)
          /\ DocSources(docs') \cap IndexedSources(index) = {}
          /\ splits' = <<>>
          /\ deleted_ids' = {}]_vars

C2_Witness ==
    /\ on_match = "ignore"
    /\ exist_ok
    /\ outcome = "ok"
    /\ Len(docs_directory) >= 2
    /\ \A i \in 1..Len(docs_directory) : docs_directory[i].page_content # <<>>
    /\ pre_index = IndexedOnce(docs_directory)
    /\ docs = <<>>
    /\ index = pre_index

\* C3: after a completed run with on_match = REPLACE, for every loaded document
\* whose source s was indexed before, the ids of the entries with source s are
\* exactly the identities of the document's new chunks, and every old entry of
\* s that is not among the new chunks is gone.
C3_ReplaceCorrect ==
    (on_match = "replace" /\ outcome = "ok")
        => \A i \in 1..Len(docs_directory) :
              LET s == Source(docs_directory[i])
                  new_ids == ChunkIds(docs_directory[i])
              IN s \in IndexedSources(pre_index)
                    => /\ Ids(EntriesOf(index, s)) = new_ids
                       /\ \A e \in EntriesOf(pre_index, s) :
                             e.id \notin new_ids => e.id \notin Ids(index)

C3_Witness ==
    /\ on_match = "replace"
    /\ outcome = "ok"
    /\ \E i \in 1..Len(docs_directory) :
          /\ ChunkIds(docs_directory[i]) # {}
          /\ \E e \in EntriesOf(pre_index, Source(docs_directory[i])) :
                e.id \notin ChunkIds(docs_directory[i])

\* C4: without exist_ok, a call on an existing collection fails at the
\* collection gate whatever on_match and the documents are, before documents
\* are loaded and before anything is deleted or upserted; with exist_ok the
\* gate never fails and the call fails exactly when on_match = FAIL meets a
\* collision.
C4_GateFirst ==
    Returned =>
        /\ (~exist_ok /\ pre_collection_exists)
              => /\ outcome = "CollectionExists"
                 /\ ~loaded
                 /\ index = pre_index
                 /\ deleted_ids = {}
                 /\ splits = <<>>
        /\ exist_ok
              => /\ outcome # "CollectionExists"
                 /\ loaded
                 /\ (outcome = "AlreadyIndexed") <=> (on_match = "fail" /\ Collisions # {})

C4_Witness ==
    /\ outcome = "CollectionExists"
    /\ on_match = "replace"
    /\ pre_index # {}
    /\ DocSources(docs_directory) \cap IndexedSources(pre_index) # {}

\* C8: under on_match = FAIL, once past the collection gate, the call succeeds
\* exactly when no loaded source is indexed already, and then every chunk of
\* the batch is in the index; when it fails, the error lists exactly the
\* loaded sources that are indexed already, each once.
C8_ErrorListsCollisions ==
    (Returned /\ on_match = "fail" /\ outcome # "CollectionExists")
        => /\ (outcome = "ok") <=> (Collisions = {})
           /\ outcome = "AlreadyIndexed"
                 => /\ Range(error_sources) = Collisions
                    /\ Len(error_sources) = Cardinality(Collisions)
           /\ outcome = "ok"
                 => \A c \in Range(split_documents(docs_directory)) :
                       Entry(stable_hash(c), c) \in index

C8_Witness ==
    /\ on_match = "fail"
    /\ outcome = "AlreadyIndexed"
    /\ Len(error_sources) = 1
    /\ Len(docs_directory) = 2

\* C9: a completed run with on_match = REPLACE leaves every entry whose source
\* is not the source of a loaded document as it was; when no loaded source was
\* indexed (an empty batch included) nothing is deleted.
C9_ReplaceFrame ==
    (on_match = "replace" /\ outcome = "ok")
        => /\ \A e \in pre_index :
                 EntrySource(e) \notin DocSources(docs_directory) => e \in index
           /\ Collisions = {} => (deleted_ids = {} /\ pre_index \subseteq index)

C9_Witness ==
    /\ on_match = "replace"
    /\ outcome = "ok"
    /\ deleted_ids # {}
    /\ \E e \in pre_index : EntrySource(e) \notin DocSources(docs_directory)

\* C10: in every state of the index, every entry's id is the stable_hash of
\* its own metadata and its metadata has a source; no two entries have equal
\* metadata; and every source has as many entries as distinct chunk metadata
\* were last indexed for it.
C10_IdIsHashOfMetadata ==
    /\ \A e \in index :
          /\ e.id = stable_hash(e)
          /\ \E i \in 1..Len(e.metadata) : e.metadata[i][1] = "source"
    /\ \A e1, e2 \in index : DictEq(e1.metadata, e2.metadata) => e1 = e2
    /\ \A s \in Sources : Cardinality(EntriesOf(index, s)) = Cardinality(last_indexed[s])

C10_Witness ==
    /\ outcome = "AlreadyIndexed"
    /\ \A s \in Sources : Cardinality(EntriesOf(index, s)) >= 1
    /\ \E s \in Sources : Cardinality(EntriesOf(index, s)) >= 2

\* C5: two chunks whose metadata are equal as key-value sets have the same
\* stable_hash, whatever their text and whatever the order in which the keys
\* were inserted.
C5_HashOfMetadataOnly ==
    (h_done /\ DictEq(h_doc1.metadata, h_doc2.metadata)) => h_id1 = h_id2

C5_Witness ==
    /\ h_done
    /\ DictEq(h_doc1.metadata, h_doc2.metadata)
    /\ h_doc1.metadata # h_doc2.metadata
    /\ h_doc1.page_content # h_doc2.page_content
    /\ h_id1 = h_id2

\* C7: get_retriever with search_type = similarity_score_threshold and no
\* score_threshold fails before the vector store is touched (as_retriever is
\* not called); in every other case it does not fail and calls as_retriever
\* once.
C7_ThresholdRequired ==
    r_outcome # "none" =>
        IF r_search_type = "similarity_score_threshold" /\ r_score_threshold = <<>>
        THEN r_outcome = "AssertionError" /\ r_as_retriever_calls = 0
        ELSE r_outcome = "ok" /\ r_as_retriever_calls = 1
             /\ r_kwargs_search_type = r_search_type

C7_Witness ==
    /\ r_outcome = "AssertionError"
    /\ r_search_type = "similarity_score_threshold"
    /\ r_score_threshold = <<>>
    /\ r_k # <<>>

\* C6: an invocation of the chain calls the retriever once; the answer's
\* source_documents are the retrieved documents in the retrieved order,
\* whatever the chat model answered; and the context in the prompt is made of
\* the same documents in the same order, "Content: ...\nSource: ..." entries
\* separated by a blank line.
PromptContext == SubSeq(q_prompt, 3, Len(q_prompt) - 2)

C6_SourcesAreRetrieved ==
    q_invoked =>
        LET n == Len(q_retrieved)
        IN /\ q_retriever_calls = 1
           /\ q_result.source_documents = q_retrieved
           /\ q_result.question = q_question
           /\ Len(PromptContext) = (IF n = 0 THEN 0 ELSE 3 * n - 1)
           /\ \A i \in 1..n :
                 /\ PromptContext[3 * i - 2] = <<"Content: ", q_retrieved[i].page_content>>
                 /\ PromptContext[3 * i - 1] = <<"\nSource: ", <<Source(q_retrieved[i])>>>>
                 /\ i < n => PromptContext[3 * i] = <<"\n\n", <<>>>>

C6_Witness ==
    /\ q_invoked
    /\ Len(q_retrieved) >= 2
    /\ Source(q_retrieved[1]) > Source(q_retrieved[2])
    /\ Source(q_retrieved[1]) \notin q_result.answer
    /\ q_result.source_documents = q_retrieved

====
